---------------------------- MODULE Spec2Model ----------------------------
(***************************************************************************)
(* The virtual try-on studio: the "EXECUTE NEURAL SYNTHESIS" handler of    *)
(* app.py, the services it calls in services/gemini_service.py             *)
(* (process_cv_grounding, analyze_try_on, generate_virtual_try_on_image),  *)
(* the session result and the "RESET CANVAS" handler.                      *)
(*                                                                         *)
(* One Streamlit script run is single-threaded, so a trigger is a chain of *)
(* steps ordered by pc; fn names the service function that is executing.   *)
(* The files of a session are in the uploaders when it starts and can be   *)
(* removed later.  A Python value that may be None is a record [isNone, v].*)
(* Byte strings are sequences of tokens.  The numeric content of a box or  *)
(* a landmark (round(x, 3)) is not modelled: a box is named by its index   *)
(* in the detector's result list, a landmark by its joint name.  The page  *)
(* layout and styling (app.py, lines 8-65) are not modelled.               *)
(***************************************************************************)
EXTENDS Integers, Sequences, FiniteSets, TLC

\* Bounds of the model.
MaxBoxes == 1      \* persons the detector can find in one portrait
MaxParts == 2      \* content parts in one synthesis response
MaxMissing == 1    \* required fields an analysis response can lack

--------------------------------------------------------------------------
\* Python values

None == [isNone |-> TRUE, v |-> <<>>]
Some(x) == [isNone |-> FALSE, v |-> x]

\* bool(x) of an optional string / bytes / file object.  A file object
\* (UploadedFile) is true whenever it exists; a str is true when non-empty.
FileTruthy(f) == ~f.isNone
StrTruthy(s) == ~s.isNone /\ Len(s.v) > 0

\* base64.b64encode(...).decode() and base64.b64decode(...), token by token.
B64Encode(bytes) == [i \in 1..Len(bytes) |-> <<"b64", bytes[i]>>]
B64Decode(s) == [i \in 1..Len(s) |-> s[i][2]]

--------------------------------------------------------------------------
\* Uploaded files.  An encoded image is a header token followed by what the
\* vision models will see in it; anything else does not decode.

PersonTokens(n) == [i \in 1..n |-> "person"]
PortraitBytes(n, pose) ==
    <<"hdr">> \o PersonTokens(n) \o (IF pose THEN <<"skeleton">> ELSE <<>>)
GarmentBytes == <<"hdr", "cloth">>
EmptyBytes == <<>>
JunkBytes == <<"junk">>

PersonFiles ==
    {None, Some(EmptyBytes), Some(JunkBytes)}
    \cup {Some(PortraitBytes(n, p)) : n \in 0..MaxBoxes, p \in BOOLEAN}
TopFiles == {None, Some(EmptyBytes), Some(GarmentBytes)}
GarmentFiles == {None, Some(GarmentBytes)}
Genders == {"MEN", "WOMEN"}
\* dress_img = None, and the dress uploader only if gender == "WOMEN"
DressFiles(g) == IF g = "WOMEN" THEN GarmentFiles ELSE {None}

\* to_b64(f)
to_b64(f) == IF FileTruthy(f) THEN Some(B64Encode(f.v)) ELSE None


--------------------------------------------------------------------------
\* The vision collaborators of process_cv_grounding

\* cv2.imdecode(np.frombuffer(img_bytes)): a pixel grid for an encoded image,
\* None for bytes that are no image.  On an empty buffer imdecode asserts
\* !buf.empty() and raises cv2.error (OpenCV 4, which ultralytics requires).
ImdecodeOutcomes(bytes) ==
    IF Len(bytes) = 0 THEN {"raise"}
    ELSE IF bytes[1] = "hdr" THEN {"pixels"}
    ELSE {"none"}
Pixels(bytes) == Tail(bytes)

BoxNames == <<"box1", "box2", "box3">>
\* results[0].boxes of yolo_model(img, classes=[0]): one box per person.
DetectBoxes(pixels) ==
    LET n == Cardinality({i \in 1..Len(pixels) : pixels[i] = "person"})
    IN  [i \in 1..n |-> BoxNames[i]]

\* pose_results.pose_landmarks: the landmark list, or nothing.
PoseLandmarks(pixels) ==
    IF \E i \in 1..Len(pixels) : pixels[i] = "skeleton"
    THEN {"NOSE", "LEFT_SHOULDER", "RIGHT_SHOULDER", "LEFT_HIP", "RIGHT_HIP"}
    ELSE {}

\* The keys of critical_points.
JointKey(l) ==
    CASE l = "LEFT_SHOULDER" -> "L_Shoulder"
      [] l = "RIGHT_SHOULDER" -> "R_Shoulder"
      [] l = "LEFT_HIP" -> "L_Hip"
      [] l = "RIGHT_HIP" -> "R_Hip"
      [] OTHER -> "unused"
critical_points(lm) ==
    {JointKey(l) : l \in lm \cap {"LEFT_SHOULDER", "RIGHT_SHOULDER", "LEFT_HIP", "RIGHT_HIP"}}

--------------------------------------------------------------------------
\* GroundingTelemetry.  spatial_hints is the sequence of the segments the
\* f-strings append; a segment names what it serializes.

Segment(tag, data) == [tag |-> tag, data |-> data]

DecodeErrorTelemetry ==
    [person_detected |-> FALSE, landmarks |-> {},
     spatial_hints |-> <<Segment("IMAGE_DECODE_ERROR", {})>>]

InitialTelemetry ==
    [person_detected |-> FALSE, landmarks |-> {}, spatial_hints |-> <<>>]

WithDetectionNoFlag(cv, boxes) ==
    IF Len(boxes) > 0
    THEN [cv EXCEPT !.spatial_hints = @ \o <<Segment("SUBJECT_BOX", {boxes[1]})>>]
    ELSE cv

\* if len(results) > 0 and len(results[0].boxes) > 0: ...
WithDetection(cv, boxes) ==
    IF Len(boxes) > 0
    THEN [cv EXCEPT !.person_detected = TRUE,
                    !.spatial_hints = @ \o <<Segment("SUBJECT_BOX", {boxes[1]})>>]
    ELSE cv

\* if pose_results.pose_landmarks: ...
WithPose(cv, lm) ==
    IF lm # {}
    THEN [cv EXCEPT !.landmarks = critical_points(lm),
                    !.spatial_hints = @ \o <<Segment("SKELETON_MAP", critical_points(lm))>>]
    ELSE cv

--------------------------------------------------------------------------
\* Prompt composition

TextPart(text, data) == [kind |-> "text", text |-> text, data |-> data]
\* types.Part.from_bytes(data=base64.b64decode(b64), mime_type="image/jpeg")
ImagePart(b64) == [kind |-> "image", text |-> "image/jpeg", data |-> B64Decode(b64.v)]

TopLabel(f) ==
    IF f = "analyze_try_on" THEN "SOURCE_TOP (Exact design source):"
    ELSE "SOURCE_TOP (Preserve this exact logo):"
BottomLabel(f) ==
    IF f = "analyze_try_on" THEN "SOURCE_BOTTOM (Exact texture source):"
    ELSE "SOURCE_BOTTOM (Preserve this exact fabric):"
DressLabel(f) ==
    IF f = "analyze_try_on" THEN "SOURCE_DRESS (Exact pattern source):"
    ELSE "SOURCE_DRESS (Preserve this exact pattern):"

LabeledImage(label, b64) == <<TextPart(label, <<>>), ImagePart(b64)>>

GarmentPartsDressFirst(f, t, b, d) ==
    (IF StrTruthy(d) THEN LabeledImage(DressLabel(f), d) ELSE <<>>)
    \o (IF StrTruthy(t) THEN LabeledImage(TopLabel(f), t) ELSE <<>>)
    \o (IF StrTruthy(b) THEN LabeledImage(BottomLabel(f), b) ELSE <<>>)

\* if top_b64: ... if bottom_b64: ... if dress_b64: ...
GarmentParts(f, t, b, d) ==
    (IF StrTruthy(t) THEN LabeledImage(TopLabel(f), t) ELSE <<>>)
    \o (IF StrTruthy(b) THEN LabeledImage(BottomLabel(f), b) ELSE <<>>)
    \o (IF StrTruthy(d) THEN LabeledImage(DressLabel(f), d) ELSE <<>>)

\* The prompt f-string: the text with the values it embeds.
Prompt(f, cv, manifest) ==
    IF f = "analyze_try_on"
    THEN TextPart("Neural Fashion Analysis Engine", <<cv.spatial_hints>>)
    ELSE TextPart("MANDATORY PIXEL-PERFECT RENDER", <<cv.spatial_hints, manifest>>)

Contents(f, cv, manifest, p, t, b, d) ==
    <<Prompt(f, cv, manifest), TextPart("TARGET_PERSON:", <<>>), ImagePart(p)>>
    \o GarmentParts(f, t, b, d)

ModelName(f) ==
    IF f = "analyze_try_on" THEN "gemini-3-flash-preview" ELSE "gemini-2.5-flash-image"

Request(f, cv, manifest, p, t, b, d) ==
    [model |-> ModelName(f), contents |-> Contents(f, cv, manifest, p, t, b, d)]

--------------------------------------------------------------------------
\* Responses of the external generation call

Required ==
    {"garmentDescription", "personDescription", "bodySize", "technicalPrompt",
     "stylingSuggestions"}

Response(kind, fields, parts) == [kind |-> kind, fields |-> fields, parts |-> parts]

\* response.text: no JSON at all, JSON that is not an object, or an object
\* holding some of the fields of the schema.
AnalysisResponses ==
    {Response("not_json", {}, <<>>), Response("json_array", {}, <<>>)}
    \cup {Response("json_object", Required \ m, <<>>) :
            m \in {x \in SUBSET Required : Cardinality(x) <= MaxMissing}}

PixelNames == <<"px1", "px2", "px3", "px4">>
PartAt(kind, i) ==
    IF kind = "inline"
    THEN [inline_data |-> Some(<<"image/png", PixelNames[i]>>)]
    ELSE [inline_data |-> None]

\* response.candidates: none (blocked prompt), a candidate without content
\* (filtered generation), or a candidate with content parts.
SynthesisResponses ==
    {Response("no_candidates", {}, <<>>), Response("no_content", {}, <<>>)}
    \cup {Response("candidate", {}, [i \in DOMAIN k |-> PartAt(k[i], i)]) :
            k \in UNION {[1..n -> {"text", "inline"}] : n \in 0..MaxParts}}

\* for part in parts: if part.inline_data: return f"data:{mime};base64,{b64}"
\* and return None after the loop.
DataUri(inline) == <<"data:", inline[1], ";base64,", B64Encode(<<inline[2]>>)>>
InlineIndexes(parts) == {i \in 1..Len(parts) : ~parts[i].inline_data.isNone}
FirstInline(parts) ==
    IF InlineIndexes(parts) = {} THEN None
    ELSE LET i == CHOOSE j \in InlineIndexes(parts) : \A h \in InlineIndexes(parts) : j <= h
         IN  Some(DataUri(parts[i].inline_data.v))

--------------------------------------------------------------------------
\* The program's state

VARIABLES
    yolo_model,       \* "YOLO", or "None" when its construction failed
    api_key,          \* whether os.environ holds API_KEY
    gender, person_img, top_img, bottom_img, dress_img,   \* the widgets' values
    pc,               \* position of the script run
    fn,               \* the service function executing, or "none"
    img,              \* the decoded pixel grid of process_cv_grounding
    cv_telemetry,     \* the record process_cv_grounding builds and returns
    calls,            \* the requests sent to generate_content by this trigger
    analysis,         \* the record analyze_try_on returned
    technical_prompt, \* argument of generate_virtual_try_on_image
    body_size,        \* argument of generate_virtual_try_on_image
    result_img,       \* what generate_virtual_try_on_image returned
    session_result,   \* st.session_state.result
    ui,               \* the message this script run showed
    log,              \* the steps this trigger has executed, in order
    raised            \* where this trigger's exception was raised, or "none"

widgets == <<gender, person_img, top_img, bottom_img, dress_img>>
handles == <<yolo_model, api_key>>
locals == <<img, cv_telemetry, analysis, technical_prompt, body_size, result_img>>
vars == <<yolo_model, api_key, gender, person_img, top_img, bottom_img, dress_img,
          pc, fn, img, cv_telemetry, calls, analysis, technical_prompt,
          body_size, result_img, session_result, ui, log, raised>>

NoAnalysis == [fields |-> {}, cv_telemetry |-> InitialTelemetry]
NoResult == [present |-> FALSE, image |-> <<>>, analysis |-> NoAnalysis]

p_b64 == to_b64(person_img)
t_b64 == to_b64(top_img)
b_b64 == to_b64(bottom_img)
d_b64 == to_b64(dress_img)

Init ==
    /\ yolo_model = "None"
    /\ api_key \in BOOLEAN
    /\ gender \in Genders
    /\ person_img \in PersonFiles
    /\ top_img \in TopFiles
    /\ bottom_img \in GarmentFiles
    /\ dress_img \in DressFiles(gender)
    /\ pc = "import"
    /\ fn = "none"
    /\ img = None
    /\ cv_telemetry = InitialTelemetry
    /\ calls = <<>>
    /\ analysis = NoAnalysis
    /\ technical_prompt = "" /\ body_size = ""
    /\ result_img = None
    /\ session_result = NoResult
    /\ ui = "none"
    /\ log = <<>>
    /\ raised = "none"

\* Module initialisation of gemini_service: YOLO's construction is guarded,
\* the pose engine's is not, so its failure ends the import of the app.
Import ==
    /\ pc = "import"
    /\ \E yolo_ok \in BOOLEAN, pose_ok \in BOOLEAN :
        /\ yolo_model' = IF yolo_ok THEN "YOLO" ELSE "None"
        /\ pc' = IF pose_ok THEN "idle" ELSE "import_error"
    /\ UNCHANGED <<api_key, widgets, fn, locals, calls, session_result, ui, log, raised>>

\* An exception inside the handler's try block: except Exception -> st.error.
Raise(site) ==
    /\ pc' = "done"
    /\ fn' = "none"
    /\ ui' = "system_error"
    /\ raised' = site

AcceptedPersonOnly(p, t, b, d) == FileTruthy(p)

\* not (person_img and (top_img or bottom_img or dress_img)) is the refusal.
Accepted(p, t, b, d) ==
    FileTruthy(p) /\ (FileTruthy(t) \/ FileTruthy(b) \/ FileTruthy(d))

\* The "EXECUTE NEURAL SYNTHESIS" button: the precondition on the widgets'
\* values and, when it holds, the entry into analyze_try_on.
Click ==
    /\ pc = "idle"
    /\ IF Accepted(person_img, top_img, bottom_img, dress_img)
       THEN /\ pc' = "get_client"
            /\ fn' = "analyze_try_on"
            /\ ui' = "status"
       ELSE /\ pc' = "done"
            /\ fn' = "none"
            /\ ui' = "warning"
    /\ UNCHANGED <<handles, widgets, locals, calls, session_result, log, raised>>

\* The user removes the uploaded files from the four uploaders.
RemoveUploads ==
    /\ pc = "idle"
    /\ person_img' = None /\ top_img' = None /\ bottom_img' = None /\ dress_img' = None
    /\ UNCHANGED <<handles, gender, pc, fn, locals, calls, session_result, ui, log, raised>>

\* get_client(): os.environ["API_KEY"]
GetClient ==
    /\ pc = "get_client"
    /\ IF api_key
       THEN pc' = "decode" /\ UNCHANGED <<fn, ui, raised>>
       ELSE Raise("get_client")
    /\ UNCHANGED <<handles, widgets, locals, calls, session_result, log>>

AfterDecodeSkipPose == "call"

\* if yolo_model: the detector runs only when its handle exists.
AfterDecode == IF yolo_model # "None" THEN "detect" ELSE "pose"

\* process_cv_grounding, lines 32-42: b64decode, frombuffer, imdecode.
Decode ==
    /\ pc = "decode"
    /\ log' = Append(log, "decode")
    /\ LET img_bytes == B64Decode(p_b64.v)
       IN  \E o \in ImdecodeOutcomes(img_bytes) :
            \/ /\ o = "raise"
               /\ Raise("cv2.imdecode")
               /\ UNCHANGED <<img, cv_telemetry>>
            \/ /\ o = "none"
               /\ img' = None
               /\ cv_telemetry' = DecodeErrorTelemetry
               /\ pc' = "call"
               /\ UNCHANGED <<fn, ui, raised>>
            \/ /\ o = "pixels"
               /\ img' = Some(Pixels(img_bytes))
               /\ cv_telemetry' = InitialTelemetry
               /\ pc' = AfterDecode
               /\ UNCHANGED <<fn, ui, raised>>
    /\ UNCHANGED <<handles, widgets, calls, analysis, technical_prompt,
                   body_size, result_img, session_result>>

\* process_cv_grounding, lines 45-51: the detector's call is not guarded.
Detect ==
    /\ pc = "detect"
    /\ log' = Append(log, "detect")
    /\ \/ /\ Raise("yolo_model")
          /\ UNCHANGED cv_telemetry
       \/ /\ cv_telemetry' = WithDetection(cv_telemetry, DetectBoxes(img.v))
          /\ pc' = "pose"
          /\ UNCHANGED <<fn, ui, raised>>
    /\ UNCHANGED <<handles, widgets, img, calls, analysis, technical_prompt,
                   body_size, result_img, session_result>>

\* process_cv_grounding, lines 54-68: the pose engine's call is not guarded.
Pose ==
    /\ pc = "pose"
    /\ log' = Append(log, "pose")
    /\ \/ /\ Raise("pose_engine.process")
          /\ UNCHANGED cv_telemetry
       \/ /\ cv_telemetry' = WithPose(cv_telemetry, PoseLandmarks(img.v))
          /\ pc' = "call"
          /\ UNCHANGED <<fn, ui, raised>>
    /\ UNCHANGED <<handles, widgets, img, calls, analysis, technical_prompt,
                   body_size, result_img, session_result>>

ComposeStep(f) ==
    IF f = "analyze_try_on" THEN "compose-analysis-call" ELSE "compose-synthesis-call"
Responses(f) ==
    IF f = "analyze_try_on" THEN AnalysisResponses ELSE SynthesisResponses

\* The composition of contents and the request of
\* client.models.generate_content(...), which may fail.
Call ==
    /\ pc = "call"
    /\ log' = Append(log, ComposeStep(fn))
    /\ calls' = Append(calls, Request(fn, cv_telemetry, technical_prompt,
                                      p_b64, t_b64, b_b64, d_b64))
    /\ \/ Raise("generate_content")
       \/ /\ pc' = "interpret"
          /\ UNCHANGED <<fn, ui, raised>>
    /\ UNCHANGED <<handles, widgets, locals, session_result>>

\* analyze_try_on, lines 101-130: the response r of the call arrives;
\* json.loads, the telemetry attached, return.
InterpretAnalysis ==
    /\ pc = "interpret" /\ fn = "analyze_try_on"
    /\ log' = Append(log, "interpret")
    /\ \E r \in Responses(fn) :
        \/ /\ r.kind = "not_json"
           /\ Raise("json.loads")
           /\ UNCHANGED analysis
        \/ /\ r.kind = "json_array"
           /\ Raise("result[cv_telemetry]")
           /\ UNCHANGED analysis
        \/ /\ r.kind = "json_object"
           /\ analysis' = [fields |-> r.fields, cv_telemetry |-> cv_telemetry]
           /\ pc' = "step2"
           /\ fn' = "none"
           /\ UNCHANGED <<ui, raised>>
    /\ UNCHANGED <<handles, widgets, img, cv_telemetry, calls,
                   technical_prompt, body_size, result_img, session_result>>

FieldValue(name) == name

\* analysis.get('bodySize', 'M')
BodySizeArg(a) == IF "bodySize" \in a.fields THEN FieldValue("bodySize") ELSE "M"

\* app.py, lines 93-99: the arguments of generate_virtual_try_on_image.
\* analysis['technicalPrompt'] raises KeyError when the key is absent.
Step2 ==
    /\ pc = "step2"
    /\ IF "technicalPrompt" \in analysis.fields
       THEN /\ technical_prompt' = FieldValue("technicalPrompt")
            /\ body_size' = BodySizeArg(analysis)
            /\ pc' = "get_client"
            /\ fn' = "generate_virtual_try_on_image"
            /\ UNCHANGED <<ui, raised>>
       ELSE /\ Raise("analysis[technicalPrompt]")
            /\ UNCHANGED <<technical_prompt, body_size>>
    /\ UNCHANGED <<handles, widgets, img, cv_telemetry, calls, analysis,
                   result_img, session_result, log>>

\* generate_virtual_try_on_image, lines 164-172: the response r of the call
\* arrives and its parts are scanned.
InterpretSynthesis ==
    /\ pc = "interpret" /\ fn = "generate_virtual_try_on_image"
    /\ log' = Append(log, "interpret")
    /\ \E r \in Responses(fn) :
        \/ /\ r.kind = "no_candidates"
           /\ Raise("response.candidates[0]")
           /\ UNCHANGED result_img
        \/ /\ r.kind = "no_content"
           /\ Raise("content.parts")
           /\ UNCHANGED result_img
        \/ /\ r.kind = "candidate"
           /\ result_img' = FirstInline(r.parts)
           /\ pc' = "classify"
           /\ fn' = "none"
           /\ UNCHANGED <<ui, raised>>
    /\ UNCHANGED <<handles, widgets, img, cv_telemetry, calls, analysis,
                   technical_prompt, body_size, session_result>>

OutcomeGenericError(r) == IF StrTruthy(r) THEN "complete" ELSE "system_error"
\* if result_img: "Synthesis Complete", else the empty-result message.
Outcome(r) == IF StrTruthy(r) THEN "complete" ELSE "empty_result"

StoredAlways(old, r, a) == [present |-> TRUE, image |-> r.v, analysis |-> a]
\* st.session_state.result = {"image": result_img, "analysis": analysis}
Stored(old, r, a) ==
    IF StrTruthy(r) THEN [present |-> TRUE, image |-> r.v, analysis |-> a] ELSE old

\* app.py, lines 101-106.
Classify ==
    /\ pc = "classify"
    /\ session_result' = Stored(session_result, result_img, analysis)
    /\ ui' = Outcome(result_img)
    /\ pc' = "done"
    /\ UNCHANGED <<handles, widgets, fn, img, cv_telemetry, analysis, technical_prompt,
                   body_size, result_img, calls, log, raised>>

\* The script run ends: its local variables are gone, the session state stays.
EndRun ==
    /\ pc = "done"
    /\ pc' = "idle"
    /\ img' = None
    /\ cv_telemetry' = InitialTelemetry
    /\ calls' = <<>>
    /\ analysis' = NoAnalysis
    /\ technical_prompt' = "" /\ body_size' = ""
    /\ result_img' = None
    /\ ui' = "none"
    /\ log' = <<>>
    /\ raised' = "none"
    /\ UNCHANGED <<handles, widgets, fn, session_result>>

\* The "RESET CANVAS" button, shown while a result is stored:
\* del st.session_state.result; st.rerun()
Reset ==
    /\ pc = "idle"
    /\ session_result.present
    /\ session_result' = NoResult
    /\ ui' = "none"
    /\ UNCHANGED <<handles, widgets, pc, fn, locals, calls, log, raised>>

Next ==
    \/ Import
    \/ Click
    \/ RemoveUploads
    \/ GetClient
    \/ Decode
    \/ Detect
    \/ Pose
    \/ Call
    \/ InterpretAnalysis
    \/ Step2
    \/ InterpretSynthesis
    \/ Classify
    \/ EndRun
    \/ Reset

Spec == Init /\ [][Next]_vars

--------------------------------------------------------------------------
\* Vocabulary of the properties

Range(s) == {s[i] : i \in 1..Len(s)}
IsPrefix(s, t) == Len(s) <= Len(t) /\ \A i \in 1..Len(s) : s[i] = t[i]
Tags(hints) == [i \in 1..Len(hints) |-> hints[i].tag]

\* The canvas tab: the stored image, or the "Awaiting input" notice.
Canvas == IF session_result.present THEN session_result.image ELSE <<"info">>

Started == pc \notin {"import", "import_error"}
NoPortrait == person_img.isNone
NoGarment == top_img.isNone /\ bottom_img.isNone /\ dress_img.isNone
\* The portrait's bytes are no encoded image.
DecodeFails ==
    ~person_img.isNone /\ (person_img.v = <<>> \/ Head(person_img.v) # "hdr")
\* process_cv_grounding has returned and its record is the caller's cv_data.
GroundingReturned == pc \in {"call", "interpret"}
\* analyze_try_on has returned a record to the handler.
AnalysisReturned == analysis # NoAnalysis
SynthesisCalled == "compose-synthesis-call" \in Range(log)

--------------------------------------------------------------------------
\* C1: whenever the structured analysis response lacks one of the five
\* required fields, analyze_try_on and the handler end in a fault: no record
\* is returned for it, no default stands in for the missing field, and the
\* synthesis call is not made.
C1_MissingFieldIsHardFailure ==
    /\ AnalysisReturned => analysis.fields = Required
    /\ body_size # "M"
    /\ SynthesisCalled => analysis.fields = Required

\* C2: for a portrait that does not decode, process_cv_grounding raises
\* nothing, runs neither the detector nor the pose estimator, and returns
\* person_detected = false, no landmarks and the decode-error marker.
C2_DecodeFailureIsAbsorbed ==
    DecodeFails =>
        /\ raised # "cv2.imdecode"
        /\ "detect" \notin Range(log) /\ "pose" \notin Range(log)
        /\ GroundingReturned => cv_telemetry = DecodeErrorTelemetry

\* C3: generate_virtual_try_on_image returns the data URI of the first part
\* with inline data, and for every response without inline data, an empty or
\* filtered generation included, it returns None and raises nothing.
C3_NoImageIsNotAFault ==
    /\ raised \notin {"response.candidates[0]", "content.parts"}
    /\ pc = "classify" =>
          \E r \in SynthesisResponses :
              /\ r.kind = "candidate"
              /\ result_img =
                    IF \A i \in 1..Len(r.parts) : r.parts[i].inline_data.isNone
                    THEN None
                    ELSE LET first == CHOOSE i \in 1..Len(r.parts) :
                                  /\ ~r.parts[i].inline_data.isNone
                                  /\ \A j \in 1..(i - 1) : r.parts[j].inline_data.isNone
                         IN  Some(DataUri(r.parts[first].inline_data.v))

\* The roles whose payload the composers see as supplied (a non-empty string).
SuppliedRoles ==
    SelectSeq(<<"top", "bottom", "dress">>,
              LAMBDA r : StrTruthy(CASE r = "top" -> t_b64
                                     [] r = "bottom" -> b_b64
                                     [] OTHER -> d_b64))
RoleBytes(r) ==
    CASE r = "person" -> person_img.v
      [] r = "top" -> top_img.v
      [] r = "bottom" -> bottom_img.v
      [] OTHER -> dress_img.v
RoleOfLabel(text) ==
    CASE text = "TARGET_PERSON:" -> "person"
      [] text \in {TopLabel("analyze_try_on"), TopLabel("generate_virtual_try_on_image")} -> "top"
      [] text \in {BottomLabel("analyze_try_on"), BottomLabel("generate_virtual_try_on_image")} -> "bottom"
      [] text \in {DressLabel("analyze_try_on"), DressLabel("generate_virtual_try_on_image")} -> "dress"
      [] OTHER -> "none"
\* The positions of the image attachments of a composition, in order.
ImageIndexes(c) == SelectSeq([i \in 1..Len(c) |-> i], LAMBDA i : c[i].kind = "image")
\* The labels of a composition, in order: every text part after the prompt.
LabelIndexes(c) == SelectSeq([i \in 1..Len(c) |-> i], LAMBDA i : i > 1 /\ c[i].kind = "text")

CompositionMatchesRoles(c) ==
    LET roles == <<"person">> \o SuppliedRoles
        imgs == ImageIndexes(c)
    IN  /\ Len(imgs) = 1 + Len(SuppliedRoles)
        /\ Len(LabelIndexes(c)) = Len(imgs)
        /\ \A k \in 1..Len(imgs) :
            /\ imgs[k] = 2 * k + 1
            /\ c[imgs[k] - 1].kind = "text"
            /\ RoleOfLabel(c[imgs[k] - 1].text) = roles[k]
            /\ c[imgs[k]].data = RoleBytes(roles[k])

C5_RefusedWithoutPortraitOrGarment ==
    (Started /\ (NoPortrait \/ NoGarment)) =>
        /\ pc \in {"idle", "done"}
        /\ log = <<>> /\ calls = <<>> /\ raised = "none"
        /\ pc = "done" => ui = "warning"

\* Witness of C5: a click with a portrait and no garment has been refused.
C5_Witness == pc = "done" /\ ui = "warning" /\ ~NoPortrait /\ NoGarment

\* The steps of one call of process_cv_grounding for this session's portrait.
GroundingSteps ==
    IF DecodeFails THEN <<"decode">>
    ELSE IF yolo_model = "None" THEN <<"decode", "pose">>
    ELSE <<"decode", "detect", "pose">>
\* The steps of a trigger that runs to its end.
FullSteps ==
    GroundingSteps \o <<"compose-analysis-call", "interpret">>
    \o GroundingSteps \o <<"compose-synthesis-call", "interpret">>
\* The step the script run is about to execute, by its position.
PendingStep ==
    CASE pc \in {"decode", "detect", "pose", "interpret"} -> pc
      [] pc = "call" -> ComposeStep(fn)
      [] OTHER -> "none"
RanToEnd == pc = "classify" \/ (pc = "done" /\ ui \in {"complete", "empty_result"})

\* C6 as claimed: a trigger that runs to its end with a decodable portrait
\* and the detector available has executed exactly decode, detect, pose,
\* compose-analysis-call, interpret, compose-synthesis-call, interpret.
C6_SevenStepsOnce ==
    (RanToEnd /\ ~DecodeFails /\ yolo_model = "YOLO") =>
        log = <<"decode", "detect", "pose", "compose-analysis-call", "interpret",
                "compose-synthesis-call", "interpret">>

\* C6 amended: the steps of an accepted trigger are executed one after the
\* other and form a prefix of: grounding (decode, detect, pose), compose-
\* analysis-call, interpret, grounding again, compose-synthesis-call,
\* interpret, the whole of it when the trigger runs to its end; detect is
\* left out without a detector, detect and pose when the portrait does not
\* decode; the synthesis call is composed only after the analysis response
\* was interpreted into a record that holds the technical prompt.
C6_StepsInOrder ==
    /\ IsPrefix(log, FullSteps)
    /\ RanToEnd => log = FullSteps
    /\ PendingStep # "none" =>
          Len(log) < Len(FullSteps) /\ FullSteps[Len(log) + 1] = PendingStep
    /\ SynthesisCalled =>
          /\ AnalysisReturned /\ "technicalPrompt" \in analysis.fields
          /\ technical_prompt = FieldValue("technicalPrompt")
          /\ Len(calls) = 2

\* Witness of C6: a trigger with full grounding has run to its end in ten steps.
C6_Witness ==
    pc = "done" /\ ui = "complete" /\ yolo_model = "YOLO" /\ Len(log) = 10

\* C7: a detector or pose estimator that is unavailable, fails or finds
\* nothing never makes process_cv_grounding raise and never aborts the
\* trigger.
C7_GroundingFailuresAbsorbed ==
    raised \notin {"yolo_model", "pose_engine.process"}

HintsSerializePresentData(cv) ==
    LET tags == Tags(cv.spatial_hints)
    IN  /\ ("SUBJECT_BOX" \in Range(tags)) <=> cv.person_detected
        /\ ("SKELETON_MAP" \in Range(tags)) <=> (cv.landmarks # {})
        /\ \A i, j \in 1..Len(tags) :
              (tags[i] = "SUBJECT_BOX" /\ tags[j] = "SKELETON_MAP") => i < j
        /\ \A i, j \in 1..Len(tags) : tags[i] = tags[j] => i = j
        /\ \A i \in 1..Len(tags) :
              tags[i] = "SKELETON_MAP" => cv.spatial_hints[i].data = cv.landmarks

\* C8 as claimed: in a returned record spatial_hints holds the box segment
\* iff person_detected, the skeleton segment iff landmarks is non-empty, the
\* box before the skeleton, and is empty when neither is present.
C8_EmptyWhenNothingPresent ==
    GroundingReturned =>
        /\ HintsSerializePresentData(cv_telemetry)
        /\ (~cv_telemetry.person_detected /\ cv_telemetry.landmarks = {}) =>
              cv_telemetry.spatial_hints = <<>>

\* C8 amended: in a returned record spatial_hints holds the box segment iff
\* person_detected, the skeleton segment iff landmarks is non-empty, the box
\* before the skeleton; when neither is present it is empty if the portrait
\* decoded and is exactly the decode-error marker if it did not.
C8_HintsMatchData ==
    GroundingReturned =>
        /\ HintsSerializePresentData(cv_telemetry)
        /\ (~cv_telemetry.person_detected /\ cv_telemetry.landmarks = {}) =>
              cv_telemetry.spatial_hints =
                  IF DecodeFails THEN <<Segment("IMAGE_DECODE_ERROR", {})>> ELSE <<>>
        /\ (cv_telemetry.person_detected \/ cv_telemetry.landmarks # {}) =>
              Range(Tags(cv_telemetry.spatial_hints)) \subseteq {"SUBJECT_BOX", "SKELETON_MAP"}

\* Witness of C8: a record with a box and a skeleton has been returned.
C8_Witness ==
    /\ GroundingReturned
    /\ cv_telemetry.person_detected /\ cv_telemetry.landmarks # {}
    /\ Len(cv_telemetry.spatial_hints) = 2

\* generate_virtual_try_on_image has returned None to the handler.
SynthesisReturnedNone == raised = "none" /\ SynthesisCalled /\ result_img = None

\* C9: an accepted trigger ends in exactly one of success, the empty-result
\* notice, or the fault message.  A synthesis that returned no image ends in
\* the notice and never in the fault message; a response that does not
\* parse, or a failed external call, ends in the fault message.
C9_OutcomesClassified ==
    (pc = "done" /\ ~(NoPortrait \/ NoGarment)) =>
        /\ ui \in {"complete", "empty_result", "system_error"}
        /\ SynthesisReturnedNone <=> ui = "empty_result"
        /\ raised \in {"json.loads", "result[cv_telemetry]", "generate_content"}
              => ui = "system_error"
        /\ raised # "none" <=> ui = "system_error"
        /\ ui = "complete" <=> (raised = "none" /\ StrTruthy(result_img))

\* Witness of C9: a trigger ended in the empty-result notice.
C9_Witness == pc = "done" /\ ui = "empty_result" /\ Len(log) = Len(FullSteps)

\* C10: the stored result changes only when a trigger that got an image
\* stores that image with its analysis, or when the canvas is reset; a
\* refused, faulted or image-less trigger leaves it, and so the canvas, as
\* it was.
C10_ResultChangesOnlyOnSuccessOrReset ==
    [][ (session_result' # session_result \/ Canvas' # Canvas) =>
          \/ /\ pc = "classify" /\ StrTruthy(result_img)
             /\ ui' = "complete"
             /\ session_result' =
                   [present |-> TRUE, image |-> result_img.v, analysis |-> analysis]
          \/ /\ pc = "idle" /\ pc' = "idle" /\ session_result.present
             /\ session_result' = NoResult ]_vars

\* Witness of C10: a trigger ended without an image while an earlier result
\* is stored.
C10_Witness ==
    pc = "done" /\ ui \in {"empty_result", "system_error"} /\ session_result.present

==========================================================================
